---- MODULE Spec2Model ----
(***************************************************************************)
(* Model of the placement engine of src/app.py: unique_orientations,       *)
(* _overlap_1d, _intersects, split_free_both and pack.                     *)
(*                                                                         *)
(* A dimension is a whole number of 1/scale length units; the calls of     *)
(* pack have whole dimensions (scale = 1).  pack is a sequential           *)
(* function; one action is one control step of it (loop header, one        *)
(* free-box evaluation, end of a pass, return).  Init is the state after   *)
(* lines 85-92 of pack (result accumulators, sorted pallet list, sorted    *)
(* container instances).                                                   *)
(***************************************************************************)
EXTENDS Integers, Sequences, FiniteSets, TLC

VARIABLES
    scale,               \* how many of the model's whole numbers make one
                         \* length unit: 1 in the calls with whole
                         \* dimensions, 10000 in those with fractional ones
    containers,          \* argument of pack: sequence of ContainerSpec
    pallets,             \* argument of pack: sequence of PalletSpec
    STACK_MAX,           \* module-level configuration (src/app.py:17)
    loaded,              \* pack: list of LoadedItem committed so far
    missed,              \* pack: remaining demand per pallet id
    total_left,          \* pack: total remaining demand
    pallets_sorted,      \* pack: pallets by descending unit volume
    container_instances, \* pack: expanded and sorted (spec, cid) pairs
    ci,                  \* pack: number of instances the for loop has taken
    free,                \* pack: free boxes of the current instance
    row, col,            \* pack: reporting counters
    placed_any,          \* pack: flag of the current pass
    i,                   \* pack: 0-based scan index into free
    best,                \* pack: best candidate of free[i], <<>> for None
    pc,                  \* control point of pack
    outcome,             \* "running", "returned" or "error"
    pass_commits,        \* history: commits of the latest pass of the
                         \* current instance, -1 before its first pass
    ledgers,             \* history: the list free of every instance the for
                         \* loop is done with, as its while loop left it
    first_run            \* history: <<>>, or <<r>> with r what an earlier
                         \* call of pack returned

vars == <<scale, containers, pallets, STACK_MAX, loaded, missed, total_left,
          pallets_sorted, container_instances, ci, free, row, col,
          placed_any, i, best, pc, outcome, pass_commits, ledgers,
          first_run>>

-----------------------------------------------------------------------------
(* Arithmetic helpers of Python used by the code *)

Max(a, b) == IF a >= b THEN a ELSE b
Min(a, b) == IF a <= b THEN a ELSE b
Abs(a) == IF a >= 0 THEN a ELSE -a

\* Python's // on numbers: floor of the quotient, for either sign of b # 0
FloorDiv(a, b) ==
    IF b > 0 THEN a \div b ELSE (-a) \div (-b)

\* Order of Python tuples of numbers of equal length (the sort keys)
RECURSIVE KeyLess(_, _)
KeyLess(a, b) ==
    IF a = <<>> THEN FALSE
    ELSE IF Head(a) < Head(b) THEN TRUE
    ELSE IF Head(a) > Head(b) THEN FALSE
    ELSE KeyLess(Tail(a), Tail(b))

\* list.sort / sorted with a key function: stable, ascending in the key.
\* ks is the sequence of records [k |-> key, v |-> element].  An element
\* comes before another one iff its key is smaller, or the keys are equal
\* and it came before in ks.
SortStable(ks) ==
    LET n == Len(ks)
        Before(a, b) ==
            \/ KeyLess(ks[a].k, ks[b].k)
            \/ (~KeyLess(ks[b].k, ks[a].k) /\ a < b)
        Rank(a) == Cardinality({b \in 1..n : Before(b, a)}) + 1
    IN [r \in 1..n |-> ks[CHOOSE a \in 1..n : Rank(a) = r]]

Values(ks) == [n \in 1..Len(ks) |-> ks[n].v]

-----------------------------------------------------------------------------
(* Data classes *)

PalletSpec(pid, l, w, h, qty) ==
    [pid |-> pid, l |-> l, w |-> w, h |-> h, qty |-> qty]

ContainerSpec(id, l, w, h, qty) ==
    [id |-> id, l |-> l, w |-> w, h |-> h, qty |-> qty]

LoadedItem(cid, pid, x, y, z, l, w, h, r, c, layer, q) ==
    [container_id |-> cid, pallet_id |-> pid, x |-> x, y |-> y, z |-> z,
     l |-> l, w |-> w, h |-> h, row |-> r, col |-> c, layer |-> layer,
     qty_in_stack |-> q, label |-> pid, stacked |-> (q > 1)]

FreeBox(x, y, z, l, w, h) ==
    [x |-> x, y |-> y, z |-> z, l |-> l, w |-> w, h |-> h]

volume(b) == Max(b.l, 0) * Max(b.w, 0) * Max(b.h, 0)

-----------------------------------------------------------------------------
(* Orientations *)

\* round(v, 3): the nearest multiple of 0.001 length unit.  A whole number of
\* length units (scale = 1) is one already.  Python rounds the double
\* nearest to v; a v half-way between two multiples that is a double goes to
\* the even one.
round3(v) ==
    IF scale = 1 THEN v
    ELSE LET grain == scale \div 1000
             q == v \div grain
             r == v % grain
         IN IF 2 * r < grain THEN q * grain
            ELSE IF 2 * r > grain THEN (q + 1) * grain
            ELSE (IF q % 2 = 0 THEN q ELSE q + 1) * grain

RECURSIVE Dedup(_, _, _)
Dedup(cands, seen, out) ==
    IF cands = <<>> THEN out
    ELSE LET c == Head(cands)
             key == <<round3(c[1]), round3(c[2]), round3(c[3])>>
         IN IF key \in seen
            THEN Dedup(Tail(cands), seen, out)
            ELSE Dedup(Tail(cands), seen \cup {key}, Append(out, c))

\* Variant: the six candidates are returned as they are
unique_orientations_all(p) ==
    << <<p.l, p.w, p.h>>, <<p.w, p.l, p.h>>,
       <<p.l, p.h, p.w>>, <<p.h, p.l, p.w>>,
       <<p.w, p.h, p.l>>, <<p.h, p.w, p.l>> >>

unique_orientations(p) ==
    LET candidates ==
            << <<p.l, p.w, p.h>>, <<p.w, p.l, p.h>>,
               <<p.l, p.h, p.w>>, <<p.h, p.l, p.w>>,
               <<p.w, p.h, p.l>>, <<p.h, p.w, p.l>> >>
    IN Dedup(candidates, {}, <<>>)

-----------------------------------------------------------------------------
(* Geometry helpers *)

_overlap_1d(a0, a1, b0, b1) == ~(a1 <= b0 \/ b1 <= a0)

_intersects(a, b) ==
    /\ _overlap_1d(a.x, a.x + a.l, b.x, b.x + b.l)
    /\ _overlap_1d(a.y, a.y + a.w, b.y, b.y + b.w)
    /\ _overlap_1d(a.z, a.z + a.h, b.z, b.z + b.h)

SelectPositive(bs) == SelectSeq(bs, LAMBDA b : volume(b) > 0)

\* Variant: the residual above the item keeps the full height of the box
split_free_both_tall(box, item) ==
    LET right_l == (box.x + box.l) - (item.x + item.l)
        front_w == (box.y + box.w) - (item.y + item.w)
        above_h == (box.z + box.h) - (item.z + item.h)
        right == IF right_l > 0
                 THEN <<FreeBox(item.x + item.l, box.y, box.z,
                                right_l, box.w, box.h)>>
                 ELSE <<>>
        front == IF front_w > 0
                 THEN <<FreeBox(box.x, item.y + item.w, box.z,
                                box.l, front_w, box.h)>>
                 ELSE <<>>
        above == IF above_h > 0
                 THEN <<FreeBox(box.x, box.y, item.z + item.h,
                                box.l, box.w, box.h)>>
                 ELSE <<>>
    IN SelectPositive(right \o front \o above)

\* Variant: the three residuals are returned whatever their extents
split_free_both_unguarded(box, item) ==
    LET right_l == (box.x + box.l) - (item.x + item.l)
        front_w == (box.y + box.w) - (item.y + item.w)
        above_h == (box.z + box.h) - (item.z + item.h)
    IN << FreeBox(item.x + item.l, box.y, box.z, right_l, box.w, box.h),
          FreeBox(box.x, item.y + item.w, box.z, box.l, front_w, box.h),
          FreeBox(box.x, box.y, item.z + item.h, box.l, box.w, above_h) >>

\* Variant: the front residual is appended before the right one
split_free_both_frontfirst(box, item) ==
    LET right_l == (box.x + box.l) - (item.x + item.l)
        front_w == (box.y + box.w) - (item.y + item.w)
        above_h == (box.z + box.h) - (item.z + item.h)
        right == IF right_l > 0
                 THEN <<FreeBox(item.x + item.l, box.y, box.z,
                                right_l, box.w, box.h)>>
                 ELSE <<>>
        front == IF front_w > 0
                 THEN <<FreeBox(box.x, item.y + item.w, box.z,
                                box.l, front_w, box.h)>>
                 ELSE <<>>
        above == IF above_h > 0
                 THEN <<FreeBox(box.x, box.y, item.z + item.h,
                                box.l, box.w, above_h)>>
                 ELSE <<>>
    IN SelectPositive(front \o right \o above)

split_free_both(box, item) ==
    LET right_l == (box.x + box.l) - (item.x + item.l)
        front_w == (box.y + box.w) - (item.y + item.w)
        above_h == (box.z + box.h) - (item.z + item.h)
        right == IF right_l > 0
                 THEN <<FreeBox(item.x + item.l, box.y, box.z,
                                right_l, box.w, box.h)>>
                 ELSE <<>>
        front == IF front_w > 0
                 THEN <<FreeBox(box.x, item.y + item.w, box.z,
                                box.l, front_w, box.h)>>
                 ELSE <<>>
        above == IF above_h > 0
                 THEN <<FreeBox(box.x, box.y, item.z + item.h,
                                box.l, box.w, above_h)>>
                 ELSE <<>>
    IN SelectPositive(right \o front \o above)

-----------------------------------------------------------------------------
(* pack, lines 85-92: accumulators, sorted pallets, container instances *)

_pid(p) == p.pid

\* dict comprehension of line 85: a later record of the same id overwrites
InitialMissed(ps) ==
    [id \in {_pid(ps[n]) : n \in 1..Len(ps)} |->
        LET last == CHOOSE n \in 1..Len(ps) :
                        /\ _pid(ps[n]) = id
                        /\ \A m \in (n + 1)..Len(ps) : _pid(ps[m]) # id
        IN ps[last].qty]

RECURSIVE SumMissed(_, _)
SumMissed(m, ids) ==
    IF ids = {} THEN 0
    ELSE LET id == CHOOSE x \in ids : TRUE
         IN m[id] + SumMissed(m, ids \ {id})

InitialTotal(m) == SumMissed(m, DOMAIN m)

SortPallets(ps) ==
    Values(SortStable([n \in 1..Len(ps) |->
        [k |-> <<-(ps[n].l * ps[n].w * ps[n].h)>>, v |-> ps[n]]]))

\* f"{c.id}-{i}" as the pair of its two parts
InstanceId(c, n) == <<c.id, n>>

\* Variant: the instance numbers run over range(0, qty + 1) minus the 0,
\* with one instance at least
RECURSIVE Expand_one(_)
Expand_one(cs) ==
    IF cs = <<>> THEN <<>>
    ELSE LET c == Head(cs)
         IN [n \in 1..Max(c.qty, 1) |-> [c |-> c, cid |-> InstanceId(c, n)]]
            \o Expand_one(Tail(cs))

RECURSIVE Expand(_)
Expand(cs) ==
    IF cs = <<>> THEN <<>>
    ELSE LET c == Head(cs)
         IN [n \in 1..Max(c.qty, 0) |-> [c |-> c, cid |-> InstanceId(c, n)]]
            \o Expand(Tail(cs))

\* Variant: the instances stay in the order of their expansion
SortInstances_asgiven(cis) == cis

SortInstances(cis) ==
    Values(SortStable([n \in 1..Len(cis) |->
        [k |-> <<-(cis[n].c.l * cis[n].c.w * cis[n].c.h)>>, v |-> cis[n]]]))

SortFree(fs) ==
    Values(SortStable([n \in 1..Len(fs) |->
        [k |-> <<fs[n].z, fs[n].y, fs[n].x>>, v |-> fs[n]]]))

-----------------------------------------------------------------------------
(* pack, lines 101-112: the best candidate of one free box *)

\* Variant: the length of the box is not compared
Fits_nolength(o, fb) == o[2] <= fb.w /\ o[3] <= fb.h

Fits(o, fb) == o[1] <= fb.l /\ o[2] <= fb.w /\ o[3] <= fb.h

\* Variant: the remaining demand does not limit the stack
Stacks_noreq(max_by_height, req, cap) ==
    Min(max_by_height, IF cap # 0 THEN cap ELSE max_by_height)

\* Variant: the cap does not limit the stack
Stacks_nocap(max_by_height, req, cap) == Min(max_by_height, req)

\* line 108; `STACK_MAX or max_by_height` takes max_by_height when the cap is 0
Stacks(max_by_height, req, cap) ==
    Min(Min(max_by_height, req), IF cap # 0 THEN cap ELSE max_by_height)

\* A visit raises ZeroDivisionError: fb.h // 0 on line 107, or the division
\* by fb.volume() = 0 on line 110
Raises(o, req, fb, cap) ==
    /\ Fits(o, fb)
    /\ IF o[3] = 0 THEN TRUE
       ELSE /\ Stacks(FloorDiv(fb.h, o[3]), req, cap) > 0
            /\ volume(fb) = 0

\* Some visit of the two for loops of lines 102-112 raises
ScanRaises(fb, ps, m, cap) ==
    \E k \in 1..Len(ps) :
        /\ m[_pid(ps[k])] > 0
        /\ LET os == unique_orientations(ps[k])
           IN \E n \in 1..Len(os) : Raises(os[n], m[_pid(ps[k])], fb, cap)

\* Variant: a candidate of equal utilization replaces the best one
Better_orequal(num, best_num) == num >= best_num

\* util > best_util (line 111).  Both are quotients by the same positive
\* fb.volume(), so the numerators are compared.
Better(num, best_num) == num > best_num

\* The two for loops of lines 102-112, from the n-th orientation of the k-th
\* pallet of ps on.  b is <<>> for None, else
\* <<[pal, pid, l, w, h, stacks, num]>>, num the numerator of best_util.
RECURSIVE ScanBest(_, _, _, _, _, _, _)
ScanBest(ps, m, cap, box, k, n, b) ==
    IF k > Len(ps) THEN b
    ELSE LET pal == ps[k]
             req == m[_pid(pal)]
             os == unique_orientations(pal)
         IN IF req <= 0 \/ n > Len(os)
            THEN ScanBest(ps, m, cap, box, k + 1, 1, b)
            ELSE LET l == os[n][1]
                     w == os[n][2]
                     h == os[n][3]
                     stacks == Stacks(FloorDiv(box.h, h), req, cap)
                     num == l * w * h * stacks
                     best_num == IF b = <<>> THEN 0 ELSE b[1].num
                 IN IF Fits(os[n], box) /\ stacks > 0 /\ Better(num, best_num)
                    THEN ScanBest(ps, m, cap, box, k, n + 1,
                                  <<[pal |-> pal, pid |-> _pid(pal),
                                     l |-> l, w |-> w, h |-> h,
                                     stacks |-> stacks, num |-> num]>>)
                    ELSE ScanBest(ps, m, cap, box, k, n + 1, b)

Best(box, ps, m, cap) == ScanBest(ps, m, cap, box, 1, 1, <<>>)

\* Variant: the item gets the unit height, not the stacked height
Candidate_unit(cid, fb, b, r, c) ==
    LoadedItem(cid, b.pid, fb.x, fb.y, fb.z, b.l, b.w, b.h,
               r, c, FloorDiv(fb.z, Max(b.h, scale)) + 1, b.stacks)

\* lines 114-118
Candidate(cid, fb, b, r, c) ==
    LoadedItem(cid, b.pid, fb.x, fb.y, fb.z, b.l, b.w, b.h * b.stacks,
               r, c, FloorDiv(fb.z, Max(b.h, scale)) + 1, b.stacks)

\* the z filter of line 119; h is the unit height of the candidate
ZNear(ex, cand, h) == Abs(ex.z - cand.z) < Max(h, ex.h)

\* Variant: the items of every container instance are compared
Collides_anyinstance(cand, h, ld, cid) ==
    \E n \in 1..Len(ld) :
        /\ ZNear(ld[n], cand, h)
        /\ _intersects(cand, ld[n])

\* line 119
Collides(cand, h, ld, cid) ==
    \E n \in 1..Len(ld) :
        /\ ld[n].container_id = cid
        /\ ZNear(ld[n], cand, h)
        /\ _intersects(cand, ld[n])

\* Variant: one unit is taken off the demand whatever the stack count
Decrement_one(m, pid, stacks) == [m EXCEPT ![pid] = @ - 1]

\* missed[pid] -= stacks (line 121)
Decrement(m, pid, stacks) == [m EXCEPT ![pid] = @ - stacks]

\* free.pop(i) with a 0-based i
Pop(fs, n) == SubSeq(fs, 1, n) \o SubSeq(fs, n + 2, Len(fs))

-----------------------------------------------------------------------------
(* Inputs *)

MaxQty == 3
MaxContQty == 1
MaxCap == 2

PalletIds == <<"P1", "P2">>
ContainerIds == <<"C1", "C2">>

PalletShapes == { <<1, 1, 3>>, <<3, 2, 1>>, <<3, 2, 2>>, <<4, 4, 1>> }
ContainerShapes == { <<3, 4, 3>>, <<3, 4, 5>> }

\* Lists of at most Len(ids) records, the n-th with identity ids[n]
PalletLists(ids, shapes, qtys) ==
    UNION { [1..n -> shapes \X qtys] : n \in 0..Len(ids) }

MkPallets(ids, f) ==
    [n \in 1..Len(f) |->
        PalletSpec(ids[n], f[n][1][1], f[n][1][2], f[n][1][3], f[n][2])]

MkContainers(ids, f) ==
    [n \in 1..Len(f) |->
        ContainerSpec(ids[n], f[n][1][1], f[n][1][2], f[n][1][3], f[n][2])]

\* The state of pack(cs, ps) after line 92, under the configuration cap
InitWith(cs, ps, cap) ==
    /\ scale = 1
    /\ containers = cs
    /\ pallets = ps
    /\ STACK_MAX = cap
    /\ loaded = <<>>
    /\ missed = InitialMissed(ps)
    /\ total_left = InitialTotal(InitialMissed(ps))
    /\ pallets_sorted = SortPallets(ps)
    /\ container_instances = SortInstances(Expand(cs))
    /\ ci = 0
    /\ free = <<>>
    /\ row = 0
    /\ col = 0
    /\ placed_any = FALSE
    /\ i = 0
    /\ best = <<>>
    /\ pc = "for"
    /\ outcome = "running"
    /\ pass_commits = -1
    /\ ledgers = <<>>
    /\ first_run = <<>>

Init ==
    \E cf \in PalletLists(ContainerIds, ContainerShapes, 0..MaxContQty),
       pf \in PalletLists(PalletIds, PalletShapes, 0..MaxQty),
       cap \in {0, 1, MaxCap} :
        InitWith(MkContainers(ContainerIds, cf), MkPallets(PalletIds, pf), cap)

-----------------------------------------------------------------------------
(* pack, lines 93-126 *)

inputs == <<scale, containers, pallets, STACK_MAX, pallets_sorted,
            container_instances>>

cur == container_instances[ci]
fb == free[i + 1]
candidate == Candidate(cur.cid, fb, best[1], row, col)

\* lines 93-96: the for loop takes the next instance
NextContainer ==
    /\ pc = "for"
    /\ ci < Len(container_instances)
    /\ total_left > 0
    /\ ci' = ci + 1
    /\ free' = <<FreeBox(0, 0, 0, container_instances[ci + 1].c.l,
                         container_instances[ci + 1].c.w,
                         container_instances[ci + 1].c.h)>>
    /\ row' = 1
    /\ col' = 1
    /\ placed_any' = TRUE
    /\ pc' = "while"
    /\ pass_commits' = -1
    /\ UNCHANGED <<inputs, loaded, missed, total_left, i, best, outcome,
                   ledgers, first_run>>

\* lines 93-94, 126: the for loop is exhausted or breaks; pack returns
Return ==
    /\ pc = "for"
    /\ (ci >= Len(container_instances) \/ total_left <= 0)
    /\ pc' = "done"
    /\ outcome' = "returned"
    /\ UNCHANGED <<inputs, loaded, missed, total_left, ci, free, row, col,
                   placed_any, i, best, pass_commits, ledgers, first_run>>

\* lines 97-99: a pass begins
BeginPass ==
    /\ pc = "while"
    /\ placed_any /\ total_left > 0
    /\ placed_any' = FALSE
    /\ free' = SortFree(free)
    /\ i' = 0
    /\ pc' = "scan"
    /\ pass_commits' = 0
    /\ UNCHANGED <<inputs, loaded, missed, total_left, ci, row, col, best,
                   outcome, ledgers, first_run>>

\* line 97: the while loop of the instance ends
EndContainer ==
    /\ pc = "while"
    /\ ~(placed_any /\ total_left > 0)
    /\ pc' = "for"
    /\ ledgers' = Append(ledgers, free)
    /\ UNCHANGED <<inputs, loaded, missed, total_left, ci, free, row, col,
                   placed_any, i, best, outcome, pass_commits, first_run>>

\* line 100: the scan goes on
Scanning ==
    /\ pc = "scan"
    /\ i < Len(free)
    /\ total_left > 0

\* Variant: the pallet types are scanned in either direction
Evaluate_anyorder ==
    /\ Scanning
    /\ ~ScanRaises(fb, pallets_sorted, missed, STACK_MAX)
    /\ \E ps \in {pallets_sorted,
                   [n \in 1..Len(pallets_sorted) |->
                       pallets_sorted[Len(pallets_sorted) + 1 - n]]} :
        best' = Best(fb, ps, missed, STACK_MAX)
    /\ pc' = "chosen"
    /\ UNCHANGED <<inputs, loaded, missed, total_left, ci, free, row, col,
                   placed_any, i, outcome, pass_commits, ledgers, first_run>>

\* lines 101-112: the candidates of free[i] are scored
Evaluate ==
    /\ Scanning
    /\ ~ScanRaises(fb, pallets_sorted, missed, STACK_MAX)
    /\ best' = Best(fb, pallets_sorted, missed, STACK_MAX)
    /\ pc' = "chosen"
    /\ UNCHANGED <<inputs, loaded, missed, total_left, ci, free, row, col,
                   placed_any, i, outcome, pass_commits, ledgers, first_run>>

\* lines 113-123: the best candidate of free[i] does not collide
Commit ==
    /\ pc = "chosen"
    /\ best # <<>>
    /\ ~Collides(candidate, best[1].h, loaded, cur.cid)
    /\ loaded' = Append(loaded, candidate)
    /\ missed' = Decrement(missed, best[1].pid, best[1].stacks)
    /\ total_left' = total_left - best[1].stacks
    /\ free' = Pop(free, i) \o split_free_both(fb, candidate)
    /\ placed_any' = TRUE
    /\ col' = col + 1
    /\ pass_commits' = pass_commits + 1
    /\ pc' = "scan"
    /\ UNCHANGED <<inputs, ci, row, i, best, outcome, ledgers, first_run>>

\* Variant: a box whose best candidate collides is dropped from the ledger
Collide_drop ==
    /\ pc = "chosen"
    /\ best # <<>>
    /\ Collides(candidate, best[1].h, loaded, cur.cid)
    /\ free' = Pop(free, i)
    /\ pc' = "scan"
    /\ UNCHANGED <<inputs, loaded, missed, total_left, ci, row, col,
                   placed_any, i, best, outcome, pass_commits, ledgers,
                   first_run>>

\* lines 113-120: the best candidate of free[i] collides
Collide ==
    /\ pc = "chosen"
    /\ best # <<>>
    /\ Collides(candidate, best[1].h, loaded, cur.cid)
    /\ i' = i + 1
    /\ pc' = "scan"
    /\ UNCHANGED <<inputs, loaded, missed, total_left, ci, free, row, col,
                   placed_any, best, outcome, pass_commits, ledgers,
                   first_run>>

\* Variant: the scan does not advance past a box without candidate
Skip_stall ==
    /\ pc = "chosen"
    /\ best = <<>>
    /\ pc' = "scan"
    /\ UNCHANGED <<inputs, loaded, missed, total_left, ci, free, row, col,
                   placed_any, i, best, outcome, pass_commits, ledgers,
                   first_run>>

\* lines 113, 124: free[i] has no candidate
Skip ==
    /\ pc = "chosen"
    /\ best = <<>>
    /\ i' = i + 1
    /\ pc' = "scan"
    /\ UNCHANGED <<inputs, loaded, missed, total_left, ci, free, row, col,
                   placed_any, best, outcome, pass_commits, ledgers,
                   first_run>>

\* lines 100, 125: the scan of the pass ends
EndPass ==
    /\ pc = "scan"
    /\ ~(i < Len(free) /\ total_left > 0)
    /\ row' = IF placed_any THEN row + 1 ELSE row
    /\ col' = IF placed_any THEN 1 ELSE col
    /\ pc' = "while"
    /\ UNCHANGED <<inputs, loaded, missed, total_left, ci, free, placed_any,
                   i, best, outcome, pass_commits, ledgers, first_run>>

Next ==
    \/ NextContainer
    \/ Return
    \/ BeginPass
    \/ EndContainer
    \/ Evaluate
    \/ Commit
    \/ Collide
    \/ Skip
    \/ EndPass

Spec == Init /\ [][Next]_vars

\* Calls with two container types and two pallet types that differ in the
\* quantities only, without cap or with the largest one
InitFair ==
    \E cq \in 0..MaxContQty, q1 \in 0..MaxQty, q2 \in 0..MaxQty,
       cap \in {0, MaxCap} :
        InitWith(<<ContainerSpec("C1", 3, 4, 3, 1),
                   ContainerSpec("C2", 2, 2, 3, cq)>>,
                 <<PalletSpec("P1", 3, 2, 2, q1),
                   PalletSpec("P2", 3, 2, 1, q2)>>, cap)

\* pack is one synchronous call: the interpreter keeps taking its steps
FairSpec == InitFair /\ [][Next]_vars /\ WF_vars(Next)

-----------------------------------------------------------------------------
(* The stacking scenario: one container 1200 x 230 x 240, one pallet type
   100 x 100 x 100 *)

ScenarioMaxQty == 26

InitScenario ==
    \E q \in 0..ScenarioMaxQty, cap \in 0..MaxCap :
        InitWith(<<ContainerSpec("C1", 1200, 230, 240, 1)>>,
                 <<PalletSpec("P1", 100, 100, 100, q)>>, cap)

SpecScenario == InitScenario /\ [][Next]_vars

-----------------------------------------------------------------------------
(* Calls with slim pallets (2 x 1 x 1 and 3 x 1 x 1) into a flat container
   (4 x 3 x 1) or a narrow one (1 x 4 x 3): the footprints leave gaps that
   only the shorter pallet, or another orientation, can fill *)

SlimPalletShapes == { <<2, 1, 1>>, <<3, 1, 1>> }
SlimContainerShapes == { <<4, 3, 1>>, <<1, 4, 3>> }

InitSlim ==
    \E cf \in PalletLists(ContainerIds, SlimContainerShapes, 0..MaxContQty),
       pf \in PalletLists(PalletIds, SlimPalletShapes, 0..MaxQty),
       cap \in 0..MaxCap :
        InitWith(MkContainers(ContainerIds, cf), MkPallets(PalletIds, pf), cap)

SpecSlim == InitSlim /\ [][Next]_vars

-----------------------------------------------------------------------------
(* Two calls of pack in a row with the same arguments and configuration:
   once the first one has returned, its result is kept in first_run and the
   second one starts from the state after line 92 *)

Rerun ==
    /\ pc = "done"
    /\ outcome = "returned"
    /\ first_run = <<>>
    /\ first_run' = <<[loaded |-> loaded, missed |-> missed]>>
    /\ loaded' = <<>>
    /\ missed' = InitialMissed(pallets)
    /\ total_left' = InitialTotal(InitialMissed(pallets))
    /\ ci' = 0
    /\ free' = <<>>
    /\ row' = 0
    /\ col' = 0
    /\ placed_any' = FALSE
    /\ i' = 0
    /\ best' = <<>>
    /\ pc' = "for"
    /\ outcome' = "running"
    /\ pass_commits' = -1
    /\ ledgers' = <<>>
    /\ UNCHANGED inputs

NextTwice == Next \/ Rerun

SpecTwice == InitSlim /\ [][NextTwice]_vars

-----------------------------------------------------------------------------
(* A call of pack followed by a call for one of its container instances
   alone, the k-th it filled: with the same pallet list (mode "same"), or
   with every quantity replaced by the demand that remained when the first
   call started that instance (mode "remaining").  first_run keeps what the
   first call placed in the instance. *)

\* What the claim compares of a placement
Placement(it) ==
    [pallet_id |-> it.pallet_id, x |-> it.x, y |-> it.y, z |-> it.z,
     l |-> it.l, w |-> it.w, h |-> it.h, qty_in_stack |-> it.qty_in_stack]

RECURSIVE PlacementsIn(_, _)
PlacementsIn(ld, cid) ==
    IF ld = <<>> THEN <<>>
    ELSE (IF Head(ld).container_id = cid THEN <<Placement(Head(ld))>>
          ELSE <<>>) \o PlacementsIn(Tail(ld), cid)

\* The units of pallet pid in the items of the instances cids
RECURSIVE UnitsIn(_, _, _)
UnitsIn(ld, cids, pid) ==
    IF ld = <<>> THEN 0
    ELSE (IF Head(ld).container_id \in cids /\ Head(ld).pallet_id = pid
          THEN Head(ld).qty_in_stack ELSE 0) + UnitsIn(Tail(ld), cids, pid)

\* missed when the for loop took its k-th instance: nothing of what that
\* instance and the later ones hold had been taken off yet
DemandAtStart(k) ==
    LET later == {container_instances[n].cid :
                     n \in k..Len(container_instances)}
    IN [id \in DOMAIN missed |-> missed[id] + UnitsIn(loaded, later, id)]

RerunAlone ==
    /\ pc = "done"
    /\ outcome = "returned"
    /\ first_run = <<>>
    /\ \E k \in 1..ci, mode \in {"same", "remaining"} :
        LET inst == container_instances[k]
            cs == <<[inst.c EXCEPT !.qty = 1]>>
            ps == IF mode = "same" THEN pallets
                  ELSE [n \in 1..Len(pallets) |->
                          [pallets[n] EXCEPT
                              !.qty = DemandAtStart(k)[pallets[n].pid]]]
        IN /\ first_run' = <<[k |-> k, mode |-> mode,
                              placements |-> PlacementsIn(loaded, inst.cid)]>>
           /\ containers' = cs
           /\ pallets' = ps
           /\ missed' = InitialMissed(ps)
           /\ total_left' = InitialTotal(InitialMissed(ps))
           /\ pallets_sorted' = SortPallets(ps)
           /\ container_instances' = SortInstances(Expand(cs))
    /\ loaded' = <<>>
    /\ ci' = 0
    /\ free' = <<>>
    /\ row' = 0
    /\ col' = 0
    /\ placed_any' = FALSE
    /\ i' = 0
    /\ best' = <<>>
    /\ pc' = "for"
    /\ outcome' = "running"
    /\ pass_commits' = -1
    /\ ledgers' = <<>>
    /\ UNCHANGED <<scale, STACK_MAX>>

NextAlone == Next \/ RerunAlone

SpecAlone == InitSlim /\ [][NextAlone]_vars

-----------------------------------------------------------------------------
(* Calls with records the callers are expected to filter: a dimension that
   is zero or negative, a negative quantity *)

AnyPalletShapes ==
    { <<1, 1, 3>>, <<3, 2, 1>>, <<1, 1, 0>>, <<0, 2, 1>>, <<-1, -1, 1>>,
      <<1, 1, -1>> }
AnyContainerShapes == { <<3, 4, 3>>, <<3, 4, 0>>, <<-1, 4, 3>> }

InitAny ==
    \E cf \in PalletLists(<<"C1">>, AnyContainerShapes, (-1)..MaxContQty),
       pf \in PalletLists(PalletIds, AnyPalletShapes, (-1)..MaxQty),
       cap \in 0..MaxCap :
        InitWith(MkContainers(ContainerIds, cf), MkPallets(PalletIds, pf), cap)

\* lines 107, 110: a ZeroDivisionError leaves pack
Raise ==
    /\ Scanning
    /\ ScanRaises(fb, pallets_sorted, missed, STACK_MAX)
    /\ pc' = "done"
    /\ outcome' = "error"
    /\ UNCHANGED <<inputs, loaded, missed, total_left, ci, free, row, col,
                   placed_any, i, best, pass_commits, ledgers, first_run>>

NextAny == Next \/ Raise

SpecAny == InitAny /\ [][NextAny]_vars

-----------------------------------------------------------------------------
(* split_free_both on its own: a box anywhere near the origin and an item
   flush at its minimum corner that fits inside it.  The box is free[1], the
   item loaded[1]; the call replaces free by the list it returns. *)

MaxOrigin == 1
MaxExtent == 3

InitSplit ==
    \E x, y, z \in 0..MaxOrigin, bl, bw, bh \in 1..MaxExtent :
        \E l \in 1..bl, w \in 1..bw, h \in 1..bh :
            /\ scale = 1
            /\ containers = <<>>
            /\ pallets = <<>>
            /\ STACK_MAX = 0
            /\ loaded = <<LoadedItem(<<"C1", 1>>, "P1", x, y, z, l, w, h,
                                     1, 1, 1, 1)>>
            /\ missed = <<>>
            /\ total_left = 0
            /\ pallets_sorted = <<>>
            /\ container_instances = <<>>
            /\ ci = 0
            /\ free = <<FreeBox(x, y, z, bl, bw, bh)>>
            /\ row = 1
            /\ col = 1
            /\ placed_any = FALSE
            /\ i = 0
            /\ best = <<>>
            /\ pc = "split"
            /\ outcome = "running"
            /\ pass_commits = -1
            /\ ledgers = <<>>
            /\ first_run = <<>>

Split ==
    /\ pc = "split"
    /\ free' = split_free_both(free[1], loaded[1])
    /\ pc' = "split_done"
    /\ outcome' = "returned"
    /\ UNCHANGED <<inputs, loaded, missed, total_left, ci, row, col,
                   placed_any, i, best, pass_commits, ledgers, first_run>>

NextSplit == Split

SpecSplit == InitSplit /\ [][NextSplit]_vars

-----------------------------------------------------------------------------
(* unique_orientations on its own, for dimensions with four decimals: a
   whole part of 1..MaxWhole length units plus 0, 0.0004, 0.0006 or 0.001.
   The pallet is pallets[1]; the list the call returns is kept in best. *)

MaxWhole == 2

Fractions == {0, 4, 6, 10}

FineDims == { n * 10000 + f : n \in 1..MaxWhole, f \in Fractions }

InitOrient ==
    \E l, w, h \in FineDims :
        /\ scale = 10000
        /\ containers = <<>>
        /\ pallets = <<PalletSpec("P1", l, w, h, 1)>>
        /\ STACK_MAX = 0
        /\ loaded = <<>>
        /\ missed = <<>>
        /\ total_left = 0
        /\ pallets_sorted = <<>>
        /\ container_instances = <<>>
        /\ ci = 0
        /\ free = <<>>
        /\ row = 1
        /\ col = 1
        /\ placed_any = FALSE
        /\ i = 0
        /\ best = <<>>
        /\ pc = "orient"
        /\ outcome = "running"
        /\ pass_commits = -1
        /\ ledgers = <<>>
        /\ first_run = <<>>

Orient ==
    /\ pc = "orient"
    /\ best' = unique_orientations(pallets[1])
    /\ pc' = "orient_done"
    /\ outcome' = "returned"
    /\ UNCHANGED <<inputs, loaded, missed, total_left, ci, free, row, col,
                   placed_any, i, pass_commits, ledgers, first_run>>

NextOrient == Orient

SpecOrient == InitOrient /\ [][NextOrient]_vars

-----------------------------------------------------------------------------
(* Properties *)

CurrentInputValid ==
    /\ \A n \in 1..Len(pallets) :
        /\ pallets[n].l > 0 /\ pallets[n].w > 0 /\ pallets[n].h > 0
        /\ pallets[n].qty >= 0
        /\ \A m \in 1..Len(pallets) : m # n => pallets[m].pid # pallets[n].pid
    /\ \A n \in 1..Len(containers) :
        /\ containers[n].l > 0 /\ containers[n].w > 0 /\ containers[n].h > 0
        /\ containers[n].qty >= 0

\* The open-interval overlap test on the three axes, written out
BoxesOverlap(a, b) ==
    /\ a.x < b.x + b.l /\ b.x < a.x + a.l
    /\ a.y < b.y + b.w /\ b.y < a.y + a.w
    /\ a.z < b.z + b.h /\ b.z < a.z + a.h

\* C1: any two distinct PlacedItems of the same container instance do not
\* overlap (open-interval overlap test, h the total stacked height).
C1_NoOverlap ==
    \A m, n \in 1..Len(loaded) :
        (m # n /\ loaded[m].container_id = loaded[n].container_id)
            => ~BoxesOverlap(loaded[m], loaded[n])

\* The container type an instance id belongs to
ContainerOf(cid) ==
    (CHOOSE n \in 1..Len(container_instances) :
        container_instances[n].cid = cid)

\* C2: every PlacedItem lies inside its container instance: x, y, z >= 0,
\* x+l <= length, y+w <= width, z+h <= height (h the total stacked height).
C2_InBounds ==
    \A n \in 1..Len(loaded) :
        LET it == loaded[n]
            c == container_instances[ContainerOf(it.container_id)].c
        IN /\ it.x >= 0 /\ it.y >= 0 /\ it.z >= 0
           /\ it.x + it.l <= c.l
           /\ it.y + it.w <= c.w
           /\ it.z + it.h <= c.h

\* An item stacked on another one reaches the roof of its container
C2_Witness ==
    \E n \in 1..Len(loaded) :
        /\ loaded[n].z > 0
        /\ loaded[n].x > 0
        /\ loaded[n].z + loaded[n].h =
             container_instances[ContainerOf(loaded[n].container_id)].c.h

RECURSIVE PlacedUnits(_, _)
PlacedUnits(ld, pid) ==
    IF ld = <<>> THEN 0
    ELSE (IF Head(ld).pallet_id = pid THEN Head(ld).qty_in_stack ELSE 0)
         + PlacedUnits(Tail(ld), pid)

\* C3: for every pallet type, the stack counts of its PlacedItems plus its
\* remaining demand equal its original quantity, in every state.
C3_Conservation ==
    \A n \in 1..Len(pallets) :
        PlacedUnits(loaded, pallets[n].pid) + missed[pallets[n].pid]
            = pallets[n].qty

\* Two types are both partly placed and partly left over
C3_Witness ==
    /\ Len(pallets) = 2
    /\ \A n \in 1..2 :
        /\ PlacedUnits(loaded, pallets[n].pid) >= 2
        /\ missed[pallets[n].pid] >= 1

\* C4: the remaining demand of a pallet type never increases from one step
\* to the next and is never negative.
C4_MonotonicDemand ==
    /\ [](\A id \in DOMAIN missed : missed[id] >= 0)
    /\ [][\A id \in DOMAIN missed : missed'[id] <= missed[id]]_vars

\* A demand went down to exactly zero while another one is still open
C4_Witness ==
    \E m, n \in 1..Len(pallets) :
        /\ pallets[m].qty > 0 /\ missed[pallets[m].pid] = 0
        /\ missed[pallets[n].pid] > 0
        /\ missed[pallets[n].pid] < pallets[n].qty

\* C5: a committed PlacedItem has stack_count = min(floor(box.h / unit_h),
\* remaining demand of its type before the commit, stack cap), a cap of 0
\* meaning no cap; so stack_count >= 1, stack_count <= cap when cap > 0 and
\* unit_h * stack_count <= the height of the free box it was placed in.
C5_StackCount ==
    [][Len(loaded') = Len(loaded) + 1 =>
        LET it == loaded'[Len(loaded')]
            box == free[i + 1]
            q == it.qty_in_stack
        IN /\ q >= 1
           /\ it.h % q = 0
           /\ LET unit_h == it.h \div q
                  by_height == box.h \div unit_h
                  req == missed[it.pallet_id]
              IN /\ q = IF STACK_MAX = 0
                        THEN Min(by_height, req)
                        ELSE Min(Min(by_height, req), STACK_MAX)
                 /\ (STACK_MAX > 0 => q <= STACK_MAX)
                 /\ unit_h * q <= box.h
    ]_vars

\* A stack that the cap cut short: the box had room and the demand was there
C5_Witness ==
    /\ STACK_MAX = 1
    /\ \E n \in 1..Len(loaded) :
        /\ loaded[n].qty_in_stack = 1
        /\ loaded[n].z = 0
        /\ 2 * loaded[n].h <=
             container_instances[ContainerOf(loaded[n].container_id)].c.h
        /\ missed[loaded[n].pallet_id] >= 1

\* A record pack is not meant to receive
InvalidInput == ~CurrentInputValid

\* C6: a call with a pallet or container record of non-positive dimension
\* or negative quantity ends in an error outcome, never in a result.
C6_InvalidInputFails ==
    (pc = "done" /\ InvalidInput) => outcome = "error"

Degenerate ==
    \/ \A n \in 1..Len(containers) : containers[n].qty = 0
    \/ \A n \in 1..Len(pallets) : pallets[n].qty = 0

\* C7: with zero container instances, zero pallet types or zero demand,
\* pack returns an empty placement list and a remaining-demand map equal
\* to the input quantities.
C7_Degenerate ==
    (pc = "done" /\ Degenerate) =>
        /\ outcome = "returned"
        /\ loaded = <<>>
        /\ DOMAIN missed = {pallets[n].pid : n \in 1..Len(pallets)}
        /\ \A n \in 1..Len(pallets) : missed[pallets[n].pid] = pallets[n].qty

\* pack has returned from a call with demand and only empty container types
C7_Witness ==
    /\ pc = "done"
    /\ Len(containers) = 2
    /\ \A n \in 1..Len(containers) : containers[n].qty = 0
    /\ Len(pallets) = 2
    /\ \A n \in 1..Len(pallets) : pallets[n].qty > 0

Perms == { <<1, 2, 3>>, <<1, 3, 2>>, <<2, 1, 3>>, <<2, 3, 1>>, <<3, 1, 2>>,
           <<3, 2, 1>> }

\* No orientation of p fits within the dimensions of any container
Infeasible(p) ==
    LET d == <<p.l, p.w, p.h>>
    IN \A n \in 1..Len(containers), f \in Perms :
        ~(/\ d[f[1]] <= containers[n].l
          /\ d[f[2]] <= containers[n].w
          /\ d[f[3]] <= containers[n].h)

\* C8: a pallet type none of whose orientations fits any container is never
\* placed; pack returns normally and its remaining demand is its quantity.
C8_Infeasible ==
    \A n \in 1..Len(pallets) :
        Infeasible(pallets[n]) =>
            /\ \A k \in 1..Len(loaded) : loaded[k].pallet_id # pallets[n].pid
            /\ outcome # "error"
            /\ pc = "done" => /\ outcome = "returned"
                              /\ missed[pallets[n].pid] = pallets[n].qty

\* pack has returned: one type was placed, the other fits no container
C8_Witness ==
    /\ pc = "done"
    /\ Len(loaded) > 0
    /\ \E n \in 1..Len(containers) : containers[n].qty > 0
    /\ \E n \in 1..Len(pallets) :
        /\ Infeasible(pallets[n])
        /\ pallets[n].qty > 0
        /\ missed[pallets[n].pid] = pallets[n].qty

\* C9: pack eventually returns; an instance is abandoned exactly when a
\* full pass committed nothing or the total remaining demand is zero; no
\* instance is started once the total remaining demand is zero.
C9_Termination ==
    /\ <>(pc = "done" /\ outcome = "returned")
    /\ [][pc = "while" =>
            ((pc' = "for") <=> (pass_commits = 0 \/ total_left <= 0))]_vars
    /\ [][ci' # ci => total_left > 0]_vars

\* pack has returned after abandoning an instance with demand left over and
\* after filling another one
C9_Witness ==
    /\ pc = "done"
    /\ ci = 2
    /\ total_left > 0
    /\ pass_commits = 0
    /\ \E n \in 1..Len(loaded) : loaded[n].container_id = container_instances[1].cid
    /\ \E n \in 1..Len(loaded) : loaded[n].container_id = container_instances[2].cid

\* C10: container 1200 x 230 x 240, pallet 100 x 100 x 100 with quantity 10,
\* cap 2: remaining demand 0, five PlacedItems of two stacked units each,
\* total height 200.
C10_Scenario ==
    (pc = "done" /\ pallets[1].qty = 10 /\ STACK_MAX = 2) =>
        /\ outcome = "returned"
        /\ missed["P1"] = 0
        /\ Len(loaded) = 5
        /\ \A n \in 1..Len(loaded) :
            /\ loaded[n].qty_in_stack = 2
            /\ loaded[n].l = 100 /\ loaded[n].w = 100 /\ loaded[n].h = 200
            /\ loaded[n].z = 0

\* pack has returned from the scenario's call
C10_Witness ==
    /\ pc = "done"
    /\ pallets[1].qty = 10
    /\ STACK_MAX = 2
    /\ containers = <<ContainerSpec("C1", 1200, 230, 240, 1)>>
    /\ Len(loaded) = 5

\* The candidate overlaps an item already placed in the instance cid
OverlapsPlaced(cand, ld, cid) ==
    \E n \in 1..Len(ld) :
        ld[n].container_id = cid /\ BoxesOverlap(cand, ld[n])

\* C11: for every candidate pack is about to commit or reject, the collision
\* check reports a collision iff the candidate, with its total stacked
\* height, overlaps an item already placed in the same container instance.
C11_CollisionCheckExact ==
    (pc = "chosen" /\ best # <<>>) =>
        (Collides(candidate, best[1].h, loaded, cur.cid)
            <=> OverlapsPlaced(candidate, loaded, cur.cid))

\* One unit of pallet p, its dimensions permuted by f, anchored at the
\* minimum corner of box
UnitAt(box, p, f) ==
    LET d == <<p.l, p.w, p.h>>
    IN [x |-> box.x, y |-> box.y, z |-> box.z,
        l |-> d[f[1]], w |-> d[f[2]], h |-> d[f[3]]]

\* The k-th container instance can take one more unit: of a type with
\* remaining demand, in a free box of its final ledger, within the extents
\* of the box and clear of every item placed in the instance
Accepts(k) ==
    \E b \in 1..Len(ledgers[k]), n \in 1..Len(pallets), f \in Perms :
        LET u == UnitAt(ledgers[k][b], pallets[n], f)
        IN /\ missed[pallets[n].pid] > 0
           /\ u.l <= ledgers[k][b].l
           /\ u.w <= ledgers[k][b].w
           /\ u.h <= ledgers[k][b].h
           /\ ~OverlapsPlaced(u, loaded, container_instances[k].cid)

\* C12: when pack returns with positive total remaining demand, no container
\* instance can accept a further placement (no free box of its final
\* ledger, type with remaining demand and orientation such that one unit
\* fits the box and overlaps no item placed in the instance).
C12_NoFurtherPlacement ==
    (pc = "done" /\ outcome = "returned" /\ total_left > 0) =>
        /\ Len(ledgers) = Len(container_instances)
        /\ \A k \in 1..Len(ledgers) : ~Accepts(k)

UnitVolume(p) == p.l * p.w * p.h

\* The stack count of spec 4.3 for a unit of height h in box, with demand req
StackCount(box, h, req) ==
    LET by_height == box.h \div h
        capped == IF STACK_MAX > 0 /\ STACK_MAX < by_height
                  THEN STACK_MAX ELSE by_height
    IN IF req < capped THEN req ELSE capped

\* The n-th orientation of the k-th type in scan order is a valid candidate
\* for box: remaining demand, fit, a stack of one unit at least
ValidCandidate(box, k, n) ==
    LET p == pallets_sorted[k]
        o == unique_orientations(p)[n]
    IN /\ missed[p.pid] > 0
       /\ o[1] <= box.l /\ o[2] <= box.w /\ o[3] <= box.h
       /\ StackCount(box, o[3], missed[p.pid]) >= 1

\* Utilization times the volume of the box
Score(box, k, n) ==
    LET p == pallets_sorted[k]
        o == unique_orientations(p)[n]
    IN o[1] * o[2] * o[3] * StackCount(box, o[3], missed[p.pid])

ScanPositions ==
    { kn \in (1..Len(pallets_sorted)) \X (1..6) :
        kn[2] <= Len(unique_orientations(pallets_sorted[kn[1]])) }

ValidPositions(box) ==
    { kn \in ScanPositions : ValidCandidate(box, kn[1], kn[2]) }

Earlier(a, b) == a[1] < b[1] \/ (a[1] = b[1] /\ a[2] < b[2])

\* best is the candidate at scan position kn
BestIsAt(kn) ==
    LET p == pallets_sorted[kn[1]]
        o == unique_orientations(p)[kn[2]]
    IN /\ best # <<>>
       /\ best[1].pal = p /\ best[1].pid = p.pid
       /\ <<best[1].l, best[1].w, best[1].h>> = o
       /\ best[1].stacks = StackCount(fb, o[3], missed[p.pid])

\* C13: the candidate pack tries to commit for a free box has a utilization
\* greater than or equal to that of every valid candidate of the box, and is
\* the first of those of maximal utilization in scan order (types by
\* descending unit volume, then orientations in enumeration order); there
\* is none iff the box has no valid candidate.
C13_BestFit ==
    /\ \A k \in 1..(Len(pallets_sorted) - 1) :
        UnitVolume(pallets_sorted[k]) >= UnitVolume(pallets_sorted[k + 1])
    /\ pc = "chosen" =>
        /\ (best = <<>>) <=> (ValidPositions(fb) = {})
        /\ best # <<>> =>
            \E kn \in ValidPositions(fb) :
                /\ BestIsAt(kn)
                /\ \A other \in ValidPositions(fb) :
                    /\ Score(fb, kn[1], kn[2]) >= Score(fb, other[1], other[2])
                    /\ Score(fb, kn[1], kn[2]) = Score(fb, other[1], other[2])
                        => (kn = other \/ Earlier(kn, other))

\* Two types of different unit volume tie on the maximal utilization of a
\* box, and the one of larger unit volume is the candidate
C13_Witness ==
    /\ pc = "chosen"
    /\ best # <<>>
    /\ \E kn, other \in ValidPositions(fb) :
        /\ BestIsAt(kn)
        /\ Score(fb, kn[1], kn[2]) = Score(fb, other[1], other[2])
        /\ UnitVolume(pallets_sorted[kn[1]])
             > UnitVolume(pallets_sorted[other[1]])

\* The interior volume of the container instance cid
InstanceVolume(cid) ==
    LET c == container_instances[ContainerOf(cid)].c
    IN c.l * c.w * c.h

RECURSIVE TotalQty(_)
TotalQty(cs) == IF cs = <<>> THEN 0 ELSE Head(cs).qty + TotalQty(Tail(cs))

CollisionReported ==
    /\ pc = "chosen"
    /\ best # <<>>
    /\ Collides(candidate, best[1].h, loaded, cur.cid)

RightResidual(box, item) ==
    [x |-> item.x + item.l, y |-> box.y, z |-> box.z,
     l |-> box.x + box.l - (item.x + item.l), w |-> box.w, h |-> box.h]

FrontResidual(box, item) ==
    [x |-> box.x, y |-> item.y + item.w, z |-> box.z,
     l |-> box.l, w |-> box.y + box.w - (item.y + item.w), h |-> box.h]

AboveResidual(box, item) ==
    [x |-> box.x, y |-> box.y, z |-> item.z + item.h,
     l |-> box.l, w |-> box.w, h |-> box.z + box.h - (item.z + item.h)]

KeepIfPositive(r) == IF r.l * r.w * r.h > 0 THEN <<r>> ELSE <<>>

Inside(r, box) ==
    /\ r.x >= box.x /\ r.x + r.l <= box.x + box.l
    /\ r.y >= box.y /\ r.y + r.w <= box.y + box.w
    /\ r.z >= box.z /\ r.z + r.h <= box.z + box.h

FlushAndFits(box, item) ==
    /\ item.x = box.x /\ item.y = box.y /\ item.z = box.z
    /\ item.l > 0 /\ item.w > 0 /\ item.h > 0
    /\ item.l <= box.l /\ item.w <= box.w /\ item.h <= box.h

\* C16: for an item flush at the minimum corner of the box and fitting in
\* it, split_free_both returns exactly the residuals right, front, above of
\* strictly positive volume, in this order; each one lies inside the box
\* and does not overlap the item.
C16_Split ==
    [][(pc = "split" /\ FlushAndFits(free[1], loaded[1])) =>
        /\ free' = KeepIfPositive(RightResidual(free[1], loaded[1]))
                   \o KeepIfPositive(FrontResidual(free[1], loaded[1]))
                   \o KeepIfPositive(AboveResidual(free[1], loaded[1]))
        /\ \A n \in 1..Len(free') :
            /\ Inside(free'[n], free[1])
            /\ ~BoxesOverlap(free'[n], loaded[1])
      ]_vars

\* The call returned the front and the above residual of an item as long
\* as its box, away from the origin
C16_Witness ==
    /\ pc = "split_done"
    /\ Len(free) = 2
    /\ loaded[1].x > 0
    /\ free[1].x = loaded[1].x /\ free[1].y = loaded[1].y + loaded[1].w
    /\ free[2].x = loaded[1].x /\ free[2].z = loaded[1].z + loaded[1].h
    /\ free[2].y = loaded[1].y

PositiveExtents(b) == b.l > 0 /\ b.w > 0 /\ b.h > 0

\* C17: on valid input every FreeBox of a container instance's ledger has
\* strictly positive extents l, w, h, hence a volume > 0, and the scoring of
\* a free box never divides by zero.
C17_PositiveBoxes ==
    CurrentInputValid =>
        /\ \A n \in 1..Len(free) :
            PositiveExtents(free[n]) /\ free[n].l * free[n].w * free[n].h > 0
        /\ \A k \in 1..Len(ledgers) : \A n \in 1..Len(ledgers[k]) :
            PositiveExtents(ledgers[k][n])
        /\ Scanning => ~ScanRaises(fb, pallets_sorted, missed, STACK_MAX)
        /\ outcome # "error"

\* A box is scored after an item that reaches the far wall of the container
\* (its right residual had no length) was placed in the instance
C17_Witness ==
    /\ pc = "chosen"
    /\ best # <<>>
    /\ \E n \in 1..Len(loaded) :
        /\ loaded[n].container_id = cur.cid
        /\ loaded[n].x + loaded[n].l = cur.c.l
        /\ loaded[n].z + loaded[n].h = cur.c.h

\* The fixed candidate list: the six permutations of (l, w, h)
SixPermutations(p) ==
    LET d == <<p.l, p.w, p.h>>
        order == << <<1, 2, 3>>, <<2, 1, 3>>, <<1, 3, 2>>, <<3, 1, 2>>,
                    <<2, 3, 1>>, <<3, 2, 1>> >>
    IN [j \in 1..6 |-> <<d[order[j][1]], d[order[j][2]], d[order[j][3]]>>]

\* A dimension in thousandths of a length unit, to the nearest one (no
\* dimension of FineDims lies half-way)
Thousandths(v) == (v * 1000 + (scale \div 2)) \div scale

SameRounded(a, b) ==
    \A n \in 1..3 : Thousandths(a[n]) = Thousandths(b[n])

\* The candidates that no earlier candidate equals, in the order of the list
FirstSeenExact(cs) ==
    LET J == { j \in 1..6 : \A k \in 1..(j - 1) : cs[k] # cs[j] }
    IN [m \in 1..Cardinality(J) |->
          cs[CHOOSE j \in J : Cardinality({k \in J : k < j}) = m - 1]]

\* The same, two candidates counting as one when they agree to 3 decimals
FirstSeenRounded(cs) ==
    LET J == { j \in 1..6 : \A k \in 1..(j - 1) : ~SameRounded(cs[k], cs[j]) }
    IN [m \in 1..Cardinality(J) |->
          cs[CHOOSE j \in J : Cardinality({k \in J : k < j}) = m - 1]]

\* C18 as stated: unique_orientations(p) returns, in first-seen order of the
\* candidate list and without duplicates, exactly the distinct permutations
\* of (p.l, p.w, p.h): 1 for a cube, 3 when exactly two dimensions are
\* equal, 6 when the three are distinct; the first entry is (p.l, p.w, p.h).
C18_Orientations ==
    pc = "orient_done" =>
        LET p == pallets[1]
            equal == Cardinality({p.l, p.w, p.h})
        IN /\ best = FirstSeenExact(SixPermutations(p))
           /\ \A m, n \in 1..Len(best) : m # n => best[m] # best[n]
           /\ {best[n] : n \in 1..Len(best)}
                = {SixPermutations(p)[j] : j \in 1..6}
           /\ Len(best) = (IF equal = 1 THEN 1 ELSE IF equal = 2 THEN 3 ELSE 6)
           /\ best[1] = <<p.l, p.w, p.h>>

\* C18, amended: unique_orientations(p) returns, in first-seen order of the
\* candidate list, one permutation of (p.l, p.w, p.h) for every class of
\* permutations that agree after rounding each dimension to 3 decimals: 1
\* when the three rounded dimensions are equal, 3 when exactly two of them
\* are, 6 when they are distinct; the first entry is (p.l, p.w, p.h).
C18_OrientationsRounded ==
    pc = "orient_done" =>
        LET p == pallets[1]
            equal == Cardinality({Thousandths(p.l), Thousandths(p.w),
                                  Thousandths(p.h)})
        IN /\ best = FirstSeenRounded(SixPermutations(p))
           /\ \A m, n \in 1..Len(best) :
                m # n => ~SameRounded(best[m], best[n])
           /\ \A j \in 1..6 : \E n \in 1..Len(best) :
                SameRounded(best[n], SixPermutations(p)[j])
           /\ \A n \in 1..Len(best) : \E j \in 1..6 :
                best[n] = SixPermutations(p)[j]
           /\ Len(best) = (IF equal = 1 THEN 1 ELSE IF equal = 2 THEN 3 ELSE 6)
           /\ best[1] = <<p.l, p.w, p.h>>

\* The call returned three orientations for a pallet of three distinct
\* dimensions, two of which agree to 3 decimals
C18_Witness ==
    /\ pc = "orient_done"
    /\ Cardinality({pallets[1].l, pallets[1].w, pallets[1].h}) = 3
    /\ Thousandths(pallets[1].l) = Thousandths(pallets[1].w)
    /\ Thousandths(pallets[1].l) # Thousandths(pallets[1].h)
    /\ Len(best) = 3

PlacedAlone == [n \in 1..Len(loaded) |-> Placement(loaded[n])]

\* C20 as stated: for the same pallet list, the placements pack makes in a
\* container instance (positions, footprints, pallet types, stack counts)
\* are the same whichever other container instances are present in the
\* input, in particular when it is the only one.
C20_Independent ==
    (first_run # <<>> /\ first_run[1].mode = "same" /\ pc = "done") =>
        PlacedAlone = first_run[1].placements

\* C20, amended: the placements pack makes in a container instance depend
\* on the other instances only through the demand that remains when the
\* instance is started: they are those of a call of pack for the instance
\* alone with every quantity set to that remaining demand, commit by commit.
C20_IndependentGivenDemand ==
    (first_run # <<>> /\ first_run[1].mode = "remaining") =>
        /\ Len(PlacedAlone) <= Len(first_run[1].placements)
        /\ PlacedAlone = SubSeq(first_run[1].placements, 1, Len(PlacedAlone))
        /\ pc = "done" => PlacedAlone = first_run[1].placements

\* The call for an instance alone has returned with several items; the
\* first call had filled another instance before it
C20_Witness ==
    /\ first_run # <<>>
    /\ first_run[1].mode = "remaining"
    /\ first_run[1].k = 2
    /\ pc = "done"
    /\ Len(loaded) >= 2

====
